---- MODULE Spec2Model ----
(***************************************************************************)
(* LyricLens / InstaMuse (src/app.py): a single Flask endpoint, /generate, *)
(* that validates an uploaded image, builds a prompt, calls call_gemini    *)
(* (external model, JSON repair, line-based recovery, mock fallback) and   *)
(* answers with captions and songs.                                        *)
(*                                                                         *)
(* Python strings are TLA+ strings (TLC evaluates Len, SubSeq and \o on    *)
(* them); Python's 0-based index k is the 1-based index k + 1 here.        *)
(***************************************************************************)
EXTENDS Integers, Sequences, FiniteSets, TLC

VARIABLES
    GEMINI_API_KEY, \* TRUE iff the credential variable is set (app.py:35)
    pc,             \* position of the running request / call
    upload,         \* request.files.get('image'): NoUpload or [filename, content]
    img_bytes,      \* img_file.read(): "none", "image" (decodable) or "garbage"
    form,           \* request.form: the fields sent (Missing when not sent)
    num,            \* generate's clamped count
    prompt,         \* the prompt handed to call_gemini / get_mock_response
    max_outputs,    \* call_gemini's max_outputs
    reply,          \* what model.generate_content answered (NoReply before)
    result,         \* what call_gemini returned
    response,       \* the HTTP response of generate
    extCalls,       \* calls of model.generate_content in this request
    mockCalls,      \* calls of get_mock_response so far
    firstMock,      \* the first get_mock_response call: [prompt, n, out]
    lastMock,       \* the latest get_mock_response call: [prompt, n, out]
    scan            \* parse_gemini_response's locals while it reads the lines

vars == <<GEMINI_API_KEY, pc, upload, img_bytes, form, num, prompt, max_outputs,
          reply, result, response, extCalls, mockCalls, firstMock, lastMock,
          scan>>

----------------------------------------------------------------------------
(* Bounds of the model.                                                    *)

\* Direct calls of get_mock_response / call_gemini use counts up to this
\* (above the pool length 7, so that the index wraps around).
MaxOutputs == 8

\* Number of get_mock_response calls in one run of SpecMock.
MaxCalls == 3

\* The most lines of a reply text read by parse_gemini_response alone.
MaxLines == 3

----------------------------------------------------------------------------
(* Python str operations.                                                  *)

\* The printable ASCII characters of code 32 (space) to 95 (_), in order.
AsciiLow ==
    " !\"#$%&'()*+,-./0123456789:;<=>?@ABCDEFGHIJKLMNOPQRSTUVWXYZ[\\]^_"

\* The printable ASCII characters of code 97 (a) to 126 (~), in order.
AsciiHigh == "abcdefghijklmnopqrstuvwxyz{|}~"

CharAt(s, i) == SubSeq(s, i, i)

\* ord(c) for the characters of the model's alphabet (ASCII, newline and tab).
OrdTable ==
    [c \in {CharAt(AsciiLow, i) : i \in 1..Len(AsciiLow)}
            \cup {CharAt(AsciiHigh, i) : i \in 1..Len(AsciiHigh)}
            \cup {"\n", "\t"} |->
        IF c = "\n" THEN 10
        ELSE IF c = "\t" THEN 9
        ELSE IF \E i \in 1..Len(AsciiLow) : CharAt(AsciiLow, i) = c
        THEN 31 + (CHOOSE i \in 1..Len(AsciiLow) : CharAt(AsciiLow, i) = c)
        ELSE 96 + (CHOOSE i \in 1..Len(AsciiHigh) : CharAt(AsciiHigh, i) = c)]

ord(c) == OrdTable[c]

\* sum(ord(c) for c in s)
RECURSIVE SumOrd(_)
SumOrd(s) ==
    IF Len(s) = 0 THEN 0
    ELSE IF Len(s) = 1 THEN ord(s)
    ELSE LET h == Len(s) \div 2
         IN  SumOrd(SubSeq(s, 1, h)) + SumOrd(SubSeq(s, h + 1, Len(s)))

\* str.lower() of one character (ASCII letters; other characters are kept).
LowerChar(c) ==
    IF c \in DOMAIN OrdTable /\ ord(c) >= 65 /\ ord(c) <= 90
    THEN CharAt(AsciiHigh, ord(c) + 32 - 96)
    ELSE c

\* s.lower()
RECURSIVE lower(_)
lower(s) ==
    IF Len(s) = 0 THEN ""
    ELSE IF Len(s) = 1 THEN LowerChar(s)
    ELSE LET h == Len(s) \div 2
         IN  lower(SubSeq(s, 1, h)) \o lower(SubSeq(s, h + 1, Len(s)))

\* pat in s
Contains(s, pat) ==
    \E i \in 1..(Len(s) - Len(pat) + 1) : SubSeq(s, i, i + Len(pat) - 1) = pat

\* s.find(pat) + 1: the 1-based index of the first occurrence, 0 when none.
Find(s, pat) ==
    IF Contains(s, pat)
    THEN CHOOSE i \in 1..(Len(s) - Len(pat) + 1) :
            /\ SubSeq(s, i, i + Len(pat) - 1) = pat
            /\ \A j \in 1..(i - 1) : SubSeq(s, j, j + Len(pat) - 1) # pat
    ELSE 0

\* s.rfind(pat) + 1: the 1-based index of the last occurrence, 0 when none.
RFind(s, pat) ==
    IF Contains(s, pat)
    THEN CHOOSE i \in 1..(Len(s) - Len(pat) + 1) :
            /\ SubSeq(s, i, i + Len(pat) - 1) = pat
            /\ \A j \in (i + 1)..(Len(s) - Len(pat) + 1) :
                  SubSeq(s, j, j + Len(pat) - 1) # pat
    ELSE 0

\* The characters str.strip() removes.
Whitespace == {" ", "\t", "\n", "\r", "\f"}

\* s.strip()
RECURSIVE strip(_)
strip(s) ==
    IF Len(s) = 0 THEN ""
    ELSE IF CharAt(s, 1) \in Whitespace THEN strip(SubSeq(s, 2, Len(s)))
    ELSE IF CharAt(s, Len(s)) \in Whitespace THEN strip(SubSeq(s, 1, Len(s) - 1))
    ELSE s

\* s.split(sep): the parts between the occurrences of sep, left to right.
RECURSIVE split(_, _)
split(s, sep) ==
    LET i == Find(s, sep)
    IN  IF i = 0 THEN << s >>
        ELSE << SubSeq(s, 1, i - 1) >> \o split(SubSeq(s, i + Len(sep), Len(s)), sep)

\* s.replace(old, ''): every occurrence of old removed, left to right.
RECURSIVE remove(_, _)
remove(s, old) ==
    LET i == Find(s, old)
    IN  IF i = 0 THEN s
        ELSE SubSeq(s, 1, i - 1) \o remove(SubSeq(s, i + Len(old), Len(s)), old)

\* x[:n] for a sequence or a string and n >= 0
Take(x, n) == SubSeq(x, 1, IF n < Len(x) THEN n ELSE Len(x))

----------------------------------------------------------------------------
(* Python values of the results: a song is a dict, here a record that also *)
(* stands for the other JSON values a reply may hold in its 'songs' list.  *)

\* {"title": t, "artist": a}
Dict(t, a) ==
    [t |-> "dict", s |-> "", keys |-> {"title", "artist"}, title |-> t, artist |-> a]

\* a str value as an entry of a JSON list of songs
Str(x) == [t |-> "str", s |-> x, keys |-> {}, title |-> "", artist |-> ""]

\* an entry of a JSON list of songs that is neither a dict nor a str (a number)
Number == [t |-> "int", s |-> "", keys |-> {}, title |-> "", artist |-> ""]

\* a dict entry that lacks 'artist'
TitleOnly(x) == [t |-> "dict", s |-> "", keys |-> {"title"}, title |-> x, artist |-> ""]

\* The value under 'captions' or 'songs': a list (its items), a str (its
\* text) or a value that cannot be sliced (a number, null).
PyList(xs) == [t |-> "list", s |-> "", items |-> xs]
PyStr(x) == [t |-> "str", s |-> x, items |-> << >>]
PyInt == [t |-> "int", s |-> "", items |-> << >>]
PyNone == [t |-> "null", s |-> "", items |-> << >>]

\* len(v) of a list or str value
PyLen(v) == IF v.t = "str" THEN Len(v.s) ELSE Len(v.items)

\* v[:n] raises TypeError unless v is a list or a str
Sliceable(v) == v.t \in {"list", "str"}

\* v[:n] for a list or str value
Slice(v, n) ==
    IF v.t = "str" THEN PyStr(Take(v.s, n)) ELSE PyList(Take(v.items, n))

\* The values "for song in v" yields: the items of a list, the characters
\* of a str.
Iterate(v) ==
    IF v.t = "str" THEN [i \in 1..Len(v.s) |-> Str(CharAt(v.s, i))] ELSE v.items

----------------------------------------------------------------------------
(* get_mock_response (app.py:225-300).                                     *)

base_captions == <<
    "Stolen moments under golden skies",
    "When the world felt like a soft melody",
    "Sunlit streets and quiet thoughts",
    "Lost in the little things",
    "Weekend chapters written in sunlight",
    "Chasing light and finding magic",
    "Simple moments, infinite beauty" >>

bollywood_songs == <<
    Dict("Tum Hi Ho", "Arijit Singh"),
    Dict("Raabta", "Arijit Singh"),
    Dict("Channa Mereya", "Arijit Singh"),
    Dict("Tera Ban Jaunga", "Tulsi Kumar & Akhil Sachdeva"),
    Dict("Kesariya", "Arijit Singh"),
    Dict("Phir Bhi Tumko Chaahunga", "Arijit Singh"),
    Dict("Dil Diyan Gallan", "Atif Aslam") >>

hollywood_songs == <<
    Dict("Golden Hour", "Joji"),
    Dict("Sunflower", "Post Malone"),
    Dict("Levitating", "Dua Lipa"),
    Dict("Blinding Lights", "The Weeknd"),
    Dict("Watermelon Sugar", "Harry Styles"),
    Dict("Good 4 U", "Olivia Rodrigo"),
    Dict("Stay", "The Kid LAROI & Justin Bieber") >>

tollywood_songs == <<
    Dict("Ala Vaikunthapurramuloo", "Armaan Malik"),
    Dict("Inkem Inkem", "Sid Sriram"),
    Dict("Samajavaragamana", "Sid Sriram"),
    Dict("Vachinde", "Madhu Priya"),
    Dict("Rangamma Mangamma", "MM Manasi"),
    Dict("Buttabomma", "Armaan Malik"),
    Dict("Ramuloo Ramulaa", "Anurag Kulkarni") >>

\* Mutant of kpop_songs: a pool of six entries.
kpop_songs_six == <<
    Dict("Dynamite", "BTS"),
    Dict("Butter", "BTS"),
    Dict("How You Like That", "BLACKPINK"),
    Dict("Gangnam Style", "PSY"),
    Dict("Next Level", "aespa"),
    Dict("Savage", "aespa") >>

kpop_songs == <<
    Dict("Dynamite", "BTS"),
    Dict("Butter", "BTS"),
    Dict("How You Like That", "BLACKPINK"),
    Dict("Gangnam Style", "PSY"),
    Dict("Next Level", "aespa"),
    Dict("Savage", "aespa"),
    Dict("LALISA", "LISA") >>

\* Mutant of select_base_songs: the keywords are tried in the reverse order.
select_base_songs_reversed(p) ==
    LET lp == lower(p)
    IN  IF Contains(lp, "hollywood") THEN hollywood_songs
        ELSE IF Contains(lp, "kpop") \/ Contains(lp, "k-pop") THEN kpop_songs
        ELSE IF Contains(lp, "tollywood") THEN tollywood_songs
        ELSE IF Contains(lp, "bollywood") THEN bollywood_songs
        ELSE hollywood_songs

\* app.py:279-287: the pool the prompt selects.
select_base_songs(p) ==
    LET lp == lower(p)
    IN  IF Contains(lp, "bollywood") THEN bollywood_songs
        ELSE IF Contains(lp, "tollywood") THEN tollywood_songs
        ELSE IF Contains(lp, "kpop") \/ Contains(lp, "k-pop") THEN kpop_songs
        ELSE IF Contains(lp, "hollywood") THEN hollywood_songs
        ELSE hollywood_songs

\* Mutant of mock_seed: a seed that advances with every call.
mock_seed_counter(p) == (SumOrd(p) + mockCalls) % Len(base_captions)

\* app.py:290: seed = sum(ord(c) for c in prompt) % len(base_captions) if prompt else 0
mock_seed(p) == IF p # "" THEN SumOrd(p) % Len(base_captions) ELSE 0

\* Mutant of get_mock_response: the songs are indexed from seed + 1.
get_mock_response_shift(p, n) ==
    LET base_songs == select_base_songs(p)
        seed == mock_seed(p)
    IN  [captions |-> PyList([k \in 1..n |->
                        base_captions[((seed + (k - 1)) % Len(base_captions)) + 1]]),
         songs    |-> [k \in 1..n |->
                        base_songs[((seed + k) % Len(base_songs)) + 1]]]

\* app.py:225-300. range(max_outputs) is empty for max_outputs <= 0.
get_mock_response(p, n) ==
    LET base_songs == select_base_songs(p)
        seed == mock_seed(p)
    IN  [captions |-> PyList([k \in 1..n |->
                        base_captions[((seed + (k - 1)) % Len(base_captions)) + 1]]),
         songs    |-> [k \in 1..n |->
                        base_songs[((seed + (k - 1)) % Len(base_songs)) + 1]]]

----------------------------------------------------------------------------
(* parse_gemini_response (app.py:173-222): line-based recovery.            *)

\* app.py:195, 201: line.replace('*', '').replace('-', '').replace('â€¢', '').strip()
clean(line) == strip(remove(remove(remove(line, "*"), "-"), "â€¢"))

\* app.py:202-209: the songs list after one line read in the songs section.
add_song(songs, line) ==
    LET song_line == clean(line)
    IN  IF Contains(song_line, " by ")
        THEN LET parts == split(song_line, " by ")
             IN  Append(songs, Dict(strip(parts[1]), strip(parts[2])))
        ELSE IF Contains(song_line, " - ")
        THEN LET parts == split(song_line, " - ")
             IN  Append(songs, Dict(strip(parts[1]), strip(parts[2])))
        ELSE IF song_line # "" /\ Len(song_line) > 3
        THEN Append(songs, Dict(song_line, "Unknown Artist"))
        ELSE songs

\* app.py:195-197: the captions list after one line read in the captions
\* section.
add_caption(captions, line) ==
    LET caption == clean(line)
    IN  IF caption # "" /\ Len(caption) > 5 THEN Append(captions, caption)
        ELSE captions

\* Mutant of scan_line: the lines that set the section lack their
\* 'continue', so the trigger line is read as data of its section as well.
scan_line_no_continue(st, raw, n) ==
    LET line == strip(raw)
        sec == IF line = "" THEN st.section
               ELSE IF Contains(lower(line), "caption") /\ Len(st.captions) = 0
               THEN "captions"
               ELSE IF Contains(lower(line), "song") /\ Len(st.songs) = 0
               THEN "songs"
               ELSE st.section
    IN  IF line = "" THEN st
        ELSE IF sec = "captions" /\ Len(st.captions) < n
        THEN [st EXCEPT !.section = sec, !.captions = add_caption(@, line)]
        ELSE IF sec = "songs" /\ Len(st.songs) < n
        THEN [st EXCEPT !.section = sec, !.songs = add_song(@, line)]
        ELSE [st EXCEPT !.section = sec]

\* app.py:181-209: one pass of the loop body, for the line raw; st holds
\* current_section ("none", "captions" or "songs"), captions and songs.
scan_line(st, raw, n) ==
    LET line == strip(raw)
    IN  IF line = ""
        THEN st
        ELSE IF Contains(lower(line), "caption") /\ Len(st.captions) = 0
        THEN [st EXCEPT !.section = "captions"]
        ELSE IF Contains(lower(line), "song") /\ Len(st.songs) = 0
        THEN [st EXCEPT !.section = "songs"]
        ELSE IF st.section = "captions" /\ Len(st.captions) < n
        THEN [st EXCEPT !.captions = add_caption(@, line)]
        ELSE IF st.section = "songs" /\ Len(st.songs) < n
        THEN [st EXCEPT !.songs = add_song(@, line)]
        ELSE st

\* app.py:181-209: the loop over the lines, from line i on; section is
\* "none", "captions" or "songs".
RECURSIVE scan_lines(_, _, _, _, _, _)
scan_lines(lines, i, section, captions, songs, n) ==
    IF i > Len(lines) THEN [captions |-> captions, songs |-> songs]
    ELSE LET st == scan_line([section |-> section, captions |-> captions,
                              songs |-> songs], lines[i], n)
         IN  scan_lines(lines, i + 1, st.section, st.captions, st.songs, n)

\* app.py:175-209: what the loop recovers from the text.
recovered(response_text, n) ==
    scan_lines(split(response_text, "\n"), 1, "none", << >>, << >>, n)

\* app.py:212: whether parse_gemini_response calls get_mock_response("", n).
needs_padding(response_text, n) ==
    LET got == recovered(response_text, n)
    IN  Len(got.captions) < n \/ Len(got.songs) < n

\* Mutant of pad: the fill is taken from its first entry on, whatever the
\* number of entries already there.
pad_from_start(xs, fill, n) ==
    IF Len(xs) < n
    THEN xs \o [k \in 1..(n - Len(xs)) |-> fill[((k - 1) % Len(fill)) + 1]]
    ELSE xs

\* app.py:214-217: xs filled up to n entries, entry len(xs) % len(fill) each
\* time.
RECURSIVE pad(_, _, _)
pad(xs, fill, n) ==
    IF Len(xs) < n THEN pad(Append(xs, fill[(Len(xs) % Len(fill)) + 1]), fill, n)
    ELSE xs

\* app.py:211-222: the lists recovered, filled up and cut to n entries.
pad_result(captions, songs, n) ==
    IF Len(captions) < n \/ Len(songs) < n
    THEN LET mock_data == get_mock_response("", n)
         IN  [captions |-> PyList(Take(pad(captions, mock_data.captions.items, n), n)),
              songs    |-> Take(pad(songs, mock_data.songs, n), n)]
    ELSE [captions |-> PyList(Take(captions, n)),
          songs    |-> Take(songs, n)]

\* app.py:173-222
parse_gemini_response(response_text, n) ==
    LET got == recovered(response_text, n)
    IN  pad_result(got.captions, got.songs, n)

----------------------------------------------------------------------------
(* call_gemini (app.py:54-170): the handling of the reply.                 *)

\* Mutant of format_song: the parts of a string entry are not trimmed.
format_song_untrimmed(formatted_songs, song) ==
    IF song.t = "dict" /\ "title" \in song.keys /\ "artist" \in song.keys
    THEN Append(formatted_songs, song)
    ELSE IF song.t = "str"
    THEN LET parts == split(song.s, " - ")
         IN  IF Len(parts) >= 2
             THEN Append(formatted_songs, Dict(parts[1], parts[2]))
             ELSE Append(formatted_songs, Dict(song.s, "Unknown Artist"))
    ELSE formatted_songs

\* app.py:147-155: formatted_songs after one entry of the songs.
format_song(formatted_songs, song) ==
    IF song.t = "dict" /\ "title" \in song.keys /\ "artist" \in song.keys
    THEN Append(formatted_songs, song)
    ELSE IF song.t = "str"
    THEN LET parts == split(song.s, " - ")
         IN  IF Len(parts) >= 2
             THEN Append(formatted_songs, Dict(strip(parts[1]), strip(parts[2])))
             ELSE Append(formatted_songs, Dict(strip(song.s), "Unknown Artist"))
    ELSE formatted_songs

\* app.py:145-155: the loop over songs, from entry i on.
RECURSIVE format_songs(_, _, _)
format_songs(songs, i, formatted_songs) ==
    IF i > Len(songs) THEN formatted_songs
    ELSE format_songs(songs, i + 1, format_song(formatted_songs, songs[i]))

\* app.py:131-135: response_text[start_idx:end_idx], "" when the text has
\* no '{' or no '}' (the guard of line 134 fails) or the last '}' is before
\* the first '{'.
json_str(response_text) ==
    LET start == Find(response_text, "{")
        end == RFind(response_text, "}")
    IN  IF start # 0 /\ end # 0 /\ start <= end
        THEN SubSeq(response_text, start, end)
        ELSE ""

\* app.py:134: start_idx != -1 and end_idx != 0
has_braces(response_text) ==
    Find(response_text, "{") # 0 /\ RFind(response_text, "}") # 0

\* app.py:136: json.loads(json_str) raises JSONDecodeError. The reply carries
\* what json.loads makes of its text; the empty string never parses.
decode_error(r) == json_str(r.text) = "" \/ ~r.ok

\* Mutant of json_outcome: the keys are read without the test of line 139,
\* so a missing key raises KeyError.
json_outcome_unchecked_keys(r) ==
    IF ~has_braces(r.text) THEN "recover"
    ELSE IF decode_error(r) THEN "recover"
    ELSE IF ~("captions" \in r.keys /\ "songs" \in r.keys) THEN "raise"
    ELSE IF ~Sliceable(r.captions) \/ ~Sliceable(r.songs) THEN "raise"
    ELSE "return"

\* app.py:129-162: "return" (lines 157-160), "raise" (an exception other
\* than JSONDecodeError, caught at line 167) or "recover" (line 165).
json_outcome(r) ==
    IF ~has_braces(r.text) THEN "recover"
    ELSE IF decode_error(r) THEN "recover"
    ELSE IF ~("captions" \in r.keys /\ "songs" \in r.keys) THEN "recover"
    ELSE IF ~Sliceable(r.captions) \/ ~Sliceable(r.songs) THEN "raise"
    ELSE "return"

\* app.py:141-160: the result of the JSON path.
json_result(r, n) ==
    [captions |-> Slice(r.captions, n),
     songs    |-> format_songs(Iterate(Slice(r.songs, n)), 1, << >>)]

----------------------------------------------------------------------------
(* Values before anything happened.                                        *)

\* request.files has no 'image' field.
NoUpload == [present |-> FALSE, filename |-> "", content |-> "none"]

\* A form field is << >> when it was not sent and << value >> when it was.
NoForm == [length |-> << >>, tone |-> << >>, region |-> << >>, mood |-> << >>,
           num |-> << >>]
NoResult == [captions |-> PyList(<< >>), songs |-> << >>]
NoReply ==
    [kind |-> "none", text |-> "", ok |-> FALSE, keys |-> {},
     captions |-> PyNone, songs |-> PyNone]
NoResponse == [status |-> 0, error |-> "", captions |-> PyList(<< >>), songs |-> << >>]
NoMock == [prompt |-> "", n |-> 0 - 1, out |-> NoResult]
NoScan ==
    [text |-> "", lines |-> << >>, i |-> 0, section |-> "none",
     captions |-> << >>, songs |-> << >>]

\* The bookkeeping of one get_mock_response(p, n) call.
MockCalled(p, n) ==
    LET call == [prompt |-> p, n |-> n, out |-> get_mock_response(p, n)]
    IN  /\ lastMock' = call
        /\ firstMock' = IF mockCalls = 0 THEN call ELSE firstMock
        /\ mockCalls' = mockCalls + 1

----------------------------------------------------------------------------
(* SpecMock: get_mock_response called directly, several times in a row.    *)

\* Prompts of the direct calls: every keyword, in several cases and
\* combinations, and prompts without any keyword.
TestPrompts == {
    "",
    "a",
    "sunset at the beach",
    "Bollywood night",
    "BOLLYWOOD",
    "tollywood hits",
    "ToLLyWood",
    "KPOP party",
    "k-pop beats",
    "hollywood",
    "Hollywood and bollywood",
    "kpop tollywood",
    "hollywood K-Pop",
    "k pop",
    "bolly wood" }

InitCommon ==
    /\ pc = "idle"
    /\ upload = NoUpload
    /\ img_bytes = "none"
    /\ form = NoForm
    /\ num = 0
    /\ prompt = ""
    /\ max_outputs = 0
    /\ reply = NoReply
    /\ result = NoResult
    /\ response = NoResponse
    /\ extCalls = 0
    /\ mockCalls = 0
    /\ firstMock = NoMock
    /\ lastMock = NoMock
    /\ scan = NoScan

InitMock ==
    /\ GEMINI_API_KEY \in BOOLEAN
    /\ InitCommon

\* Counts of the direct calls: none, one, the default and one above the pool
\* length.
TestCounts == {0, 1, 3, MaxOutputs}

\* One direct call get_mock_response(p, n).
DirectMock ==
    /\ pc = "idle"
    /\ mockCalls < MaxCalls
    /\ \E p \in TestPrompts, n \in TestCounts :
          /\ MockCalled(p, n)
          /\ prompt' = p
          /\ max_outputs' = n
          /\ result' = lastMock'.out
    /\ UNCHANGED <<scan, GEMINI_API_KEY, pc, upload, img_bytes, form, num, reply,
                   response, extCalls>>

NextMock == DirectMock

SpecMock == InitMock /\ [][NextMock]_vars

----------------------------------------------------------------------------
(* The replies of the external model (app.py:123-126).                     *)

\* A reply whose text is response.text.strip(); ok, keys, captions and songs
\* are what json.loads makes of the text between its first '{' and its last
\* '}': ok is FALSE when it raises JSONDecodeError, keys are the keys of the
\* parsed object.
Reply(text, ok, keys, captions, songs) ==
    [kind |-> "text", text |-> text, ok |-> ok, keys |-> keys,
     captions |-> captions, songs |-> songs]

\* model.generate_content or response.text raised.
Raised ==
    [kind |-> "raise", text |-> "", ok |-> FALSE, keys |-> {},
     captions |-> PyNone, songs |-> PyNone]

Both == {"captions", "songs"}

ThreeCaptions == << "Golden hour glow", "Salt in the air", "Chasing the sun" >>

TestReplies == {
    \* well-formed, songs as objects (one with an extra key)
    Reply("{\"captions\": [\"Golden hour glow\", \"Salt in the air\", \"Chasing the sun\"], \"songs\": [{\"title\": \"Yellow\", \"artist\": \"Coldplay\"}, {\"title\": \"Riptide\", \"artist\": \"Vance Joy\"}, {\"title\": \"Ocean Eyes\", \"artist\": \"Billie Eilish\", \"year\": 2016}]}",
          TRUE, Both, PyList(ThreeCaptions),
          PyList(<< Dict("Yellow", "Coldplay"), Dict("Riptide", "Vance Joy"),
                    [t |-> "dict", s |-> "", keys |-> {"title", "artist", "year"},
                     title |-> "Ocean Eyes", artist |-> "Billie Eilish"] >>)),
    \* songs as strings, with and without the separator
    Reply("{\"captions\": [\"Golden hour glow\", \"Salt in the air\"], \"songs\": [\"Yellow - Coldplay\", \"  Fix You  -  Coldplay \", \" Hymn \", \"Stay - Rihanna - Mikky Ekko\"]}",
          TRUE, Both, PyList(<< "Golden hour glow", "Salt in the air" >>),
          PyList(<< Str("Yellow - Coldplay"), Str("  Fix You  -  Coldplay "),
                    Str(" Hymn "), Str("Stay - Rihanna - Mikky Ekko") >>)),
    \* fewer entries than any positive count
    Reply("{\"captions\": [\"Golden hour glow\"], \"songs\": []}",
          TRUE, Both, PyList(<< "Golden hour glow" >>), PyList(<< >>)),
    \* seven entries each
    Reply("{\"captions\": [\"one\", \"two\", \"three\", \"four\", \"five\", \"six\", \"seven\"], \"songs\": [\"s1 - a1\", \"s2 - a2\", \"s3 - a3\", \"s4 - a4\", \"s5 - a5\", \"s6 - a6\", \"s7 - a7\"]}",
          TRUE, Both,
          PyList(<< "one", "two", "three", "four", "five", "six", "seven" >>),
          PyList(<< Str("s1 - a1"), Str("s2 - a2"), Str("s3 - a3"), Str("s4 - a4"),
                    Str("s5 - a5"), Str("s6 - a6"), Str("s7 - a7") >>)),
    \* song entries that are neither a str nor a dict with both keys
    Reply("{\"captions\": [\"Golden hour glow\", \"Salt in the air\", \"Chasing the sun\"], \"songs\": [{\"title\": \"Yellow\"}, 7, \"Riptide - Vance Joy\"]}",
          TRUE, Both, PyList(ThreeCaptions),
          PyList(<< TitleOnly("Yellow"), Number, Str("Riptide - Vance Joy") >>)),
    \* 'captions' is a number
    Reply("{\"captions\": 5, \"songs\": []}", TRUE, Both, PyInt, PyList(<< >>)),
    \* 'songs' is null
    Reply("{\"captions\": [\"Golden hour glow\"], \"songs\": null}",
          TRUE, Both, PyList(<< "Golden hour glow" >>), PyNone),
    \* both values are strings
    Reply("{\"captions\": \"Golden hour\", \"songs\": \"Yellow\"}",
          TRUE, Both, PyStr("Golden hour"), PyStr("Yellow")),
    \* no 'songs' key
    Reply("{\"captions\": [\"Golden hour glow\", \"Salt in the air\"]}",
          TRUE, {"captions"}, PyList(<< "Golden hour glow", "Salt in the air" >>), PyNone),
    \* braces around text that is not JSON
    Reply("Here you go:\n{captions: [Golden hour glow], songs: [Yellow by Coldplay]}",
          FALSE, {}, PyNone, PyNone),
    \* the last '}' before the first '{'
    Reply("} oops {", FALSE, {}, PyNone, PyNone),
    \* no braces: sections of lines
    Reply("Captions:\n* Golden hour glow\n- Salt in the air\n\nSongs:\n1. Yellow by Coldplay\n* Fix You - Coldplay\n- Riptide\n* Clocks",
          FALSE, {}, PyNone, PyNone),
    \* no braces, nothing to recover
    Reply("Sorry, I cannot help with that image.", FALSE, {}, PyNone, PyNone) }

----------------------------------------------------------------------------
(* call_gemini (app.py:54-170), step by step.                              *)

\* Mutant of no_credential: the test of the credential is inverted.
no_credential_inverted == GEMINI_API_KEY

\* app.py:61: if not GEMINI_API_KEY
no_credential == ~GEMINI_API_KEY

\* app.py:61-63: no credential, the mock response is returned.
CallGeminiNoKey ==
    /\ pc = "call"
    /\ no_credential
    /\ MockCalled(prompt, max_outputs)
    /\ result' = lastMock'.out
    /\ pc' = "returned"
    /\ UNCHANGED <<scan, GEMINI_API_KEY, upload, img_bytes, form, num, prompt,
                   max_outputs, reply, response, extCalls>>

\* app.py:65-67: the try block is entered.
CallGeminiTry ==
    /\ pc = "call"
    /\ ~no_credential
    /\ pc' = "open"
    /\ UNCHANGED <<scan, GEMINI_API_KEY, upload, img_bytes, form, num, prompt,
                   max_outputs, reply, result, response, extCalls, mockCalls,
                   firstMock, lastMock>>

\* app.py:70: Image.open(BytesIO(image_bytes)) raises unless the bytes are an
\* image. Lines 73-120 then build the enhanced prompt from the prompt; they
\* change nothing the caller sees and cannot raise.
OpenImage ==
    /\ pc = "open"
    /\ pc' = IF img_bytes = "image" THEN "generate" ELSE "except"
    /\ UNCHANGED <<scan, GEMINI_API_KEY, upload, img_bytes, form, num, prompt,
                   max_outputs, reply, result, response, extCalls, mockCalls,
                   firstMock, lastMock>>

\* Mutant of after_failure: the external call is tried a second time.
after_failure_retry == IF extCalls < 2 THEN "generate" ELSE "except"

\* app.py:167: where control goes when the external call raised.
after_failure == "except"

\* app.py:123-126: the one external call; it raises or answers a text.
GenerateContent ==
    /\ pc = "generate"
    /\ extCalls' = extCalls + 1
    /\ \/ /\ reply' = Raised
          /\ pc' = after_failure
       \/ /\ reply' \in TestReplies
          /\ pc' = "parse"
    /\ UNCHANGED <<scan, GEMINI_API_KEY, upload, img_bytes, form, num, prompt,
                   max_outputs, result, response, mockCalls, firstMock, lastMock>>

\* app.py:129-160: the reply parses as JSON with both keys.
ParseJson ==
    /\ pc = "parse"
    /\ json_outcome(reply) = "return"
    /\ result' = json_result(reply, max_outputs)
    /\ pc' = "returned"
    /\ UNCHANGED <<scan, GEMINI_API_KEY, upload, img_bytes, form, num, prompt,
                   max_outputs, reply, response, extCalls, mockCalls, firstMock,
                   lastMock>>

\* app.py:141-142: slicing a value that is neither a list nor a str raises
\* TypeError, which line 167 catches.
ParseRaises ==
    /\ pc = "parse"
    /\ json_outcome(reply) = "raise"
    /\ pc' = "except"
    /\ UNCHANGED <<scan, GEMINI_API_KEY, upload, img_bytes, form, num, prompt,
                   max_outputs, reply, result, response, extCalls, mockCalls,
                   firstMock, lastMock>>

\* app.py:161-165: line-based recovery, which calls get_mock_response("", n)
\* when it recovers fewer than n captions or songs.
ParseLines ==
    /\ pc = "parse"
    /\ json_outcome(reply) = "recover"
    /\ result' = parse_gemini_response(reply.text, max_outputs)
    /\ IF needs_padding(reply.text, max_outputs)
       THEN MockCalled("", max_outputs)
       ELSE UNCHANGED <<mockCalls, firstMock, lastMock>>
    /\ pc' = "returned"
    /\ UNCHANGED <<scan, GEMINI_API_KEY, upload, img_bytes, form, num, prompt,
                   max_outputs, reply, response, extCalls>>

\* Mutant of Fallback: the mock response is built for the empty prompt.
Fallback_empty_prompt ==
    /\ pc = "except"
    /\ MockCalled("", max_outputs)
    /\ result' = lastMock'.out
    /\ pc' = "returned"
    /\ UNCHANGED <<scan, GEMINI_API_KEY, upload, img_bytes, form, num, prompt,
                   max_outputs, reply, response, extCalls>>

\* app.py:167-170: any exception of the try block ends in the mock response.
Fallback ==
    /\ pc = "except"
    /\ MockCalled(prompt, max_outputs)
    /\ result' = lastMock'.out
    /\ pc' = "returned"
    /\ UNCHANGED <<scan, GEMINI_API_KEY, upload, img_bytes, form, num, prompt,
                   max_outputs, reply, response, extCalls>>

----------------------------------------------------------------------------
(* SpecAdapter: call_gemini called directly.                               *)

\* call_gemini(p, image_bytes, n) is called; image_bytes is None ("none"),
\* the bytes of an image or other bytes.
DirectCall ==
    /\ pc = "idle"
    /\ \E p \in TestPrompts, n \in TestCounts, b \in {"none", "image", "garbage"} :
          /\ prompt' = p
          /\ max_outputs' = n
          /\ img_bytes' = b
    /\ pc' = "call"
    /\ reply' = NoReply
    /\ result' = NoResult
    /\ extCalls' = 0
    /\ mockCalls' = 0
    /\ firstMock' = NoMock
    /\ lastMock' = NoMock
    /\ UNCHANGED <<scan, GEMINI_API_KEY, upload, form, num, response>>

\* call_gemini has returned to its caller; the next call may start.
DirectReturn ==
    /\ pc = "returned"
    /\ pc' = "idle"
    /\ UNCHANGED <<scan, GEMINI_API_KEY, upload, img_bytes, form, num, prompt,
                   max_outputs, reply, result, response, extCalls, mockCalls,
                   firstMock, lastMock>>

InitAdapter ==
    /\ GEMINI_API_KEY \in BOOLEAN
    /\ InitCommon

NextAdapter ==
    \/ DirectCall
    \/ CallGeminiNoKey
    \/ CallGeminiTry
    \/ OpenImage
    \/ GenerateContent
    \/ ParseJson
    \/ ParseRaises
    \/ ParseLines
    \/ Fallback
    \/ DirectReturn

SpecAdapter == InitAdapter /\ [][NextAdapter]_vars

----------------------------------------------------------------------------
(* SpecLines: one direct call of parse_gemini_response, its loop line by   *)
(* line; the function keeps nothing from one call to the next.             *)

\* Lines of the reply texts: both headings, a heading naming both lists, a
\* bulleted caption, a song with " by ", a song with " - ", a blank line and
\* a cleaned line too short for either list.
TestLines == {
    "Captions:",
    "Songs:",
    "Here are captions and songs",
    "* Golden hour glow",
    "Yellow by Coldplay",
    "- Fix You - Coldplay",
    "   ",
    "* Hi",
    "Hymn" }

\* Counts of the direct calls, within the range generate clamps to.
TestScanCounts == {1, 2, 6}

\* '\n'.join(lines)
RECURSIVE JoinLines(_)
JoinLines(lines) ==
    IF Len(lines) = 0 THEN ""
    ELSE IF Len(lines) = 1 THEN lines[1]
    ELSE lines[1] \o "\n" \o JoinLines(Tail(lines))

\* app.py:173-179: parse_gemini_response is entered with a text and a count.
ParseStart ==
    /\ pc = "idle"
    /\ \E k \in 0..MaxLines, n \in TestScanCounts :
         \E ls \in [1..k -> TestLines] :
            LET response_text == JoinLines(ls)
            IN  /\ max_outputs' = n
                /\ scan' = [text |-> response_text,
                            lines |-> split(response_text, "\n"), i |-> 1,
                            section |-> "none", captions |-> << >>, songs |-> << >>]
    /\ pc' = "scan"
    /\ result' = NoResult
    /\ mockCalls' = 0
    /\ firstMock' = NoMock
    /\ lastMock' = NoMock
    /\ UNCHANGED <<GEMINI_API_KEY, upload, img_bytes, form, num, prompt, reply,
                   response, extCalls>>

\* app.py:181-209: one pass of the loop.
ScanLine ==
    /\ pc = "scan"
    /\ scan.i <= Len(scan.lines)
    /\ LET st == scan_line([section |-> scan.section, captions |-> scan.captions,
                            songs |-> scan.songs], scan.lines[scan.i], max_outputs)
       IN  scan' = [scan EXCEPT !.i = @ + 1, !.section = st.section,
                                !.captions = st.captions, !.songs = st.songs]
    /\ UNCHANGED <<GEMINI_API_KEY, pc, upload, img_bytes, form, num, prompt,
                   max_outputs, reply, result, response, extCalls, mockCalls,
                   firstMock, lastMock>>

\* app.py:211-222: the loop is over; fill up and return.
ParseFinish ==
    /\ pc = "scan"
    /\ scan.i > Len(scan.lines)
    /\ result' = pad_result(scan.captions, scan.songs, max_outputs)
    /\ IF Len(scan.captions) < max_outputs \/ Len(scan.songs) < max_outputs
       THEN MockCalled("", max_outputs)
       ELSE UNCHANGED <<mockCalls, firstMock, lastMock>>
    /\ pc' = "returned"
    /\ UNCHANGED <<scan, GEMINI_API_KEY, upload, img_bytes, form, num, prompt,
                   max_outputs, reply, response, extCalls>>

InitLines ==
    /\ GEMINI_API_KEY = TRUE
    /\ InitCommon

NextLines ==
    \/ ParseStart
    \/ ScanLine
    \/ ParseFinish

SpecLines == InitLines /\ [][NextLines]_vars

----------------------------------------------------------------------------
(* generate (app.py:888-944): the upload validation.                       *)

\* app.py:43
UPLOAD_EXTENSIONS == {".jpg", ".jpeg", ".png"}

\* bool(img_file): a FileStorage is true iff it has a filename; a missing
\* field is None.
is_uploaded(u) == u.present /\ u.filename # ""

\* The characters secure_filename keeps: [A-Za-z0-9_.-].
IsSafeChar(c) ==
    /\ c \in DOMAIN OrdTable
    /\ \/ ord(c) >= 48 /\ ord(c) <= 57
       \/ ord(c) >= 65 /\ ord(c) <= 90
       \/ ord(c) >= 97 /\ ord(c) <= 122
       \/ c \in {"_", ".", "-"}

\* One character of the filename through secure_filename: a path separator
\* and whitespace become "_" (the runs are joined below), a character that
\* is not ASCII or not in [A-Za-z0-9_.-] is dropped. The alphabet of the
\* model holds no character that NFKD decomposes into ASCII.
SecureChar(c) ==
    IF c = "/" \/ c \in Whitespace THEN " "
    ELSE IF IsSafeChar(c) THEN c
    ELSE ""

RECURSIVE MapSecure(_)
MapSecure(s) ==
    IF Len(s) = 0 THEN ""
    ELSE IF Len(s) = 1 THEN SecureChar(s)
    ELSE LET h == Len(s) \div 2
         IN  MapSecure(SubSeq(s, 1, h)) \o MapSecure(SubSeq(s, h + 1, Len(s)))

\* "_".join(s.split()): runs of whitespace become one "_", none at the ends.
RECURSIVE JoinWords(_)
JoinWords(s) ==
    LET t == strip(s)
        i == Find(t, " ")
    IN  IF i = 0 THEN t
        ELSE SubSeq(t, 1, i - 1) \o "_" \o JoinWords(SubSeq(t, i + 1, Len(t)))

\* s.strip("._")
RECURSIVE StripDots(_)
StripDots(s) ==
    IF Len(s) = 0 THEN ""
    ELSE IF CharAt(s, 1) \in {".", "_"} THEN StripDots(SubSeq(s, 2, Len(s)))
    ELSE IF CharAt(s, Len(s)) \in {".", "_"} THEN StripDots(SubSeq(s, 1, Len(s) - 1))
    ELSE s

\* app.py:895: werkzeug's secure_filename(filename).
secure_filename(filename) == StripDots(JoinWords(MapSecure(filename)))

\* os.path.splitext(name)[1]: from the last dot on, "" when there is no dot
\* or only dots before it.
splitext(name) ==
    LET i == RFind(name, ".")
    IN  IF i = 0 THEN ""
        ELSE IF \A j \in 1..(i - 1) : CharAt(name, j) = "." THEN ""
        ELSE SubSeq(name, i, Len(name))

\* app.py:895-896: ext = os.path.splitext(secure_filename(filename))[1].lower()
upload_ext(u) == lower(splitext(secure_filename(u.filename)))

\* app.py:897: ext in app.config['UPLOAD_EXTENSIONS']
extension_allowed(ext) == ext \in UPLOAD_EXTENSIONS

----------------------------------------------------------------------------
(* generate: the options and the prompt.                                   *)

\* request.form.get(field, default)
form_get(field, default) == IF field = << >> THEN default ELSE field[1]

IsDigit(c) == c \in DOMAIN OrdTable /\ ord(c) >= 48 /\ ord(c) <= 57

\* The value of a string of digits.
RECURSIVE DigitsValue(_)
DigitsValue(s) ==
    IF Len(s) = 0 THEN 0
    ELSE 10 * DigitsValue(SubSeq(s, 1, Len(s) - 1)) + (ord(CharAt(s, Len(s))) - 48)

\* int(x) succeeds: optional whitespace around an optional sign and digits.
is_int(x) ==
    LET t == strip(x)
        d == IF t # "" /\ CharAt(t, 1) \in {"+", "-"} THEN SubSeq(t, 2, Len(t)) ELSE t
    IN  d # "" /\ \A i \in 1..Len(d) : IsDigit(CharAt(d, i))

\* int(x) when it succeeds
int(x) ==
    LET t == strip(x)
    IN  IF CharAt(t, 1) = "-" THEN 0 - DigitsValue(SubSeq(t, 2, Len(t)))
        ELSE IF CharAt(t, 1) = "+" THEN DigitsValue(SubSeq(t, 2, Len(t)))
        ELSE DigitsValue(t)

Min(a, b) == IF a < b THEN a ELSE b
Max(a, b) == IF a > b THEN a ELSE b

\* Mutant of parse_num: the lower clamp is missing.
parse_num_unclamped(field) ==
    LET x == form_get(field, "3")
    IN  IF is_int(x) THEN Min(6, int(x)) ELSE 3

\* app.py:907-911: num = max(1, min(6, int(form.get('num', '3')))), 3 when
\* int raises.
parse_num(field) ==
    LET x == form_get(field, "3")
    IN  IF is_int(x) THEN Max(1, Min(6, int(x))) ELSE 3

\* str(n) for n >= 0
RECURSIVE str(_)
str(n) ==
    IF n < 10 THEN CharAt("0123456789", n + 1)
    ELSE str(n \div 10) \o CharAt("0123456789", (n % 10) + 1)

\* Mutant of build_prompt: the f-string ends before the guidance for the
\* regions.
build_prompt_no_guidance(n, length, tone, region, mood) ==
    "You are a social-media assistant. I will provide a photo. Generate " \o
    str(n) \o
    " caption suggestions and " \o
    str(n) \o
    " song suggestions.\n\nCRITICAL REQUIREMENTS:\n- Caption length: " \o
    length \o
    "\n- Tone: " \o
    tone \o
    " \n- Song region: " \o
    region \o
    " (THIS IS MANDATORY - only suggest songs from this region)\n- Song mood: " \o
    mood \o
    "\n\nProvide captions as single lines and songs with title and artist."

\* app.py:914-929: the f-string.
build_prompt(n, length, tone, region, mood) ==
    "You are a social-media assistant. I will provide a photo. Generate " \o
    str(n) \o
    " caption suggestions and " \o
    str(n) \o
    " song suggestions.\n\nCRITICAL REQUIREMENTS:\n- Caption length: " \o
    length \o
    "\n- Tone: " \o
    tone \o
    " \n- Song region: " \o
    region \o
    " (THIS IS MANDATORY - only suggest songs from this region)\n- Song mood: " \o
    mood \o
    "\n\nFor song region '" \o
    region \o
    "':\n- bollywood: Only Hindi/Bollywood songs (Arijit Singh, Shreya Ghoshal, A.R. Rahman, etc.)\n- hollywood: Only English/Western pop songs\n- tollywood: Only Telugu cinema songs\n- kpop: Only Korean pop songs\n- any: Mix from different regions\n\nProvide captions as single lines and songs with title and artist."

----------------------------------------------------------------------------
(* Spec: requests to POST /generate, one after the other.                  *)

Upload(filename, content) ==
    [present |-> TRUE, filename |-> filename, content |-> content]

\* The filenames of the uploads: allowed and other extensions, upper case,
\* a space, characters secure_filename drops, no extension, no name.
TestFilenames ==
    {"pic.jpg", "Holiday.JPEG", "my photo.png", "anim.gif", "notes",
     "写.png", "a.p!ng", "archive.png.exe", ""}

\* The options sent with a request (the num field apart).
TestOptions == {
    [length |-> << >>, tone |-> << >>, region |-> << >>, mood |-> << >>],
    [length |-> << "short" >>, tone |-> << "cute" >>, region |-> << "bollywood" >>,
     mood |-> << "chill" >>],
    [length |-> << "medium" >>, tone |-> << "moody" >>, region |-> << "hollywood" >>,
     mood |-> << "upbeat" >>],
    [length |-> << "long" >>, tone |-> << "funny" >>, region |-> << "tollywood" >>,
     mood |-> << "romantic" >>],
    [length |-> << "short" >>, tone |-> << "romantic" >>, region |-> << "kpop" >>,
     mood |-> << "nostalgic" >>],
    [length |-> << "long" >>, tone |-> << "aesthetic" >>, region |-> << "any" >>,
     mood |-> << "party" >>] }

\* The num field: not sent, integers below, in and above [1,6], and values
\* int() rejects.
TestNums ==
    {<< >>, << "0" >>, << "10" >>, << "-2" >>, << "1" >>, << "6" >>, << " 4 " >>,
     << "abc" >>, << "" >>, << "2.5" >>}

\* A request arrives: with or without an image field.
Receive ==
    /\ pc \in {"idle", "responded"}
    /\ \/ upload' = NoUpload
       \/ \E f \in TestFilenames, c \in {"image", "garbage"} : upload' = Upload(f, c)
    /\ pc' = "validate"
    /\ img_bytes' = "none"
    /\ form' = NoForm
    /\ num' = 0
    /\ prompt' = ""
    /\ max_outputs' = 0
    /\ reply' = NoReply
    /\ result' = NoResult
    /\ response' = NoResponse
    /\ extCalls' = 0
    /\ mockCalls' = 0
    /\ firstMock' = NoMock
    /\ lastMock' = NoMock
    /\ UNCHANGED <<scan, GEMINI_API_KEY>>

\* app.py:891-893
RejectNoImage ==
    /\ pc = "validate"
    /\ ~is_uploaded(upload)
    /\ response' = [NoResponse EXCEPT !.status = 400, !.error = "No image uploaded"]
    /\ pc' = "responded"
    /\ UNCHANGED <<scan, GEMINI_API_KEY, upload, img_bytes, form, num, prompt,
                   max_outputs, reply, result, extCalls, mockCalls, firstMock,
                   lastMock>>

\* Mutant of RejectExtension: the error response is built but the handler
\* does not return.
RejectExtension_no_return ==
    /\ pc = "validate"
    /\ is_uploaded(upload)
    /\ ~extension_allowed(upload_ext(upload))
    /\ response' = [NoResponse EXCEPT !.status = 400, !.error = "Unsupported file type"]
    /\ img_bytes' = upload.content
    /\ pc' = "options"
    /\ UNCHANGED <<scan, GEMINI_API_KEY, upload, form, num, prompt, max_outputs, reply,
                   result, extCalls, mockCalls, firstMock, lastMock>>

\* app.py:895-898
RejectExtension ==
    /\ pc = "validate"
    /\ is_uploaded(upload)
    /\ ~extension_allowed(upload_ext(upload))
    /\ response' = [NoResponse EXCEPT !.status = 400, !.error = "Unsupported file type"]
    /\ pc' = "responded"
    /\ UNCHANGED <<scan, GEMINI_API_KEY, upload, img_bytes, form, num, prompt,
                   max_outputs, reply, result, extCalls, mockCalls, firstMock,
                   lastMock>>

\* app.py:900: the upload passed, img_bytes = img_file.read()
ReadImage ==
    /\ pc = "validate"
    /\ is_uploaded(upload)
    /\ extension_allowed(upload_ext(upload))
    /\ img_bytes' = upload.content
    /\ pc' = "options"
    /\ UNCHANGED <<scan, GEMINI_API_KEY, upload, form, num, prompt, max_outputs, reply,
                   result, response, extCalls, mockCalls, firstMock, lastMock>>

\* app.py:903-911: the form is read, num is parsed and clamped.
ReadOptions ==
    /\ pc = "options"
    /\ \E o \in TestOptions, n \in TestNums :
          /\ form' = [length |-> o.length, tone |-> o.tone, region |-> o.region,
                      mood |-> o.mood, num |-> n]
          /\ num' = parse_num(n)
    /\ pc' = "prompt"
    /\ UNCHANGED <<scan, GEMINI_API_KEY, upload, img_bytes, prompt, max_outputs, reply,
                   result, response, extCalls, mockCalls, firstMock, lastMock>>

\* app.py:914-929
BuildPrompt ==
    /\ pc = "prompt"
    /\ prompt' = build_prompt(num, form_get(form.length, "medium"),
                              form_get(form.tone, "aesthetic"),
                              form_get(form.region, "any"),
                              form_get(form.mood, "chill"))
    /\ pc' = "adapter"
    /\ UNCHANGED <<scan, GEMINI_API_KEY, upload, img_bytes, form, num, max_outputs, reply,
                   result, response, extCalls, mockCalls, firstMock, lastMock>>

\* app.py:934: call_gemini(prompt, image_bytes=img_bytes, max_outputs=num)
CallAdapter ==
    /\ pc = "adapter"
    /\ max_outputs' = num
    /\ pc' = "call"
    /\ UNCHANGED <<scan, GEMINI_API_KEY, upload, img_bytes, form, num, prompt, reply,
                   result, response, extCalls, mockCalls, firstMock, lastMock>>

\* app.py:940-944: the lists are cut to num entries and sent with status
\* 200. call_gemini has no path that raises, so line 936-938 (status 500) is
\* never taken.
Respond ==
    /\ pc = "returned"
    /\ response' = [status |-> 200, error |-> "",
                    captions |-> Slice(result.captions, num),
                    songs |-> Take(result.songs, num)]
    /\ pc' = "responded"
    /\ UNCHANGED <<scan, GEMINI_API_KEY, upload, img_bytes, form, num, prompt,
                   max_outputs, reply, result, extCalls, mockCalls, firstMock,
                   lastMock>>

Init ==
    /\ GEMINI_API_KEY \in BOOLEAN
    /\ InitCommon

Next ==
    \/ Receive
    \/ RejectNoImage
    \/ RejectExtension
    \/ ReadImage
    \/ ReadOptions
    \/ BuildPrompt
    \/ CallAdapter
    \/ CallGeminiNoKey
    \/ CallGeminiTry
    \/ OpenImage
    \/ GenerateContent
    \/ ParseJson
    \/ ParseRaises
    \/ ParseLines
    \/ Fallback
    \/ Respond

Spec == Init /\ [][Next]_vars

----------------------------------------------------------------------------
(* The claims.                                                             *)

\* The request was answered with status 200.
Answered == pc = "responded" /\ response.status = 200

\* C1: every request that passes the upload validation is answered with
\* exactly num captions and exactly num songs, whatever the external model
\* did. (Stated as claimed; the JSON path returns fewer when the reply holds
\* fewer.)
C1_ResponseLengths ==
    Answered =>
        /\ response.captions.t = "list"
        /\ PyLen(response.captions) = num
        /\ Len(response.songs) = num

\* A failure inside call_gemini that raises: the image cannot be opened, the
\* external call raised, or a value of the parsed reply cannot be sliced.
RaisingFailure ==
    /\ GEMINI_API_KEY
    /\ \/ img_bytes # "image"
       \/ reply.kind = "raise"
       \/ reply.kind = "text" /\ json_outcome(reply) = "raise"

\* The reply has braces around text that json.loads rejects.
InvalidJson ==
    /\ reply.kind = "text"
    /\ has_braces(reply.text)
    /\ decode_error(reply)

\* C2 as claimed: every failure of the external call or of the parsing of
\* its reply, invalid JSON included, makes call_gemini return the mock
\* response for its prompt and count.
C2_EveryFailureYieldsMock ==
    (pc = "returned" /\ (RaisingFailure \/ (GEMINI_API_KEY /\ InvalidJson))) =>
        result = get_mock_response(prompt, max_outputs)

\* C2 amended: call_gemini returns a result with captions and songs (each
\* song a dict with title and artist) on every path; a failure that raises
\* yields get_mock_response(prompt, max_outputs); a reply that is invalid
\* JSON yields parse_gemini_response(reply text, max_outputs) instead.
C2_FailuresAbsorbed ==
    /\ pc \in {"idle", "call", "open", "generate", "parse", "except", "returned"}
    /\ pc = "returned" =>
          /\ result.captions.t \in {"list", "str"}
          /\ \A i \in 1..Len(result.songs) :
                /\ result.songs[i].t = "dict"
                /\ {"title", "artist"} \subseteq result.songs[i].keys
          /\ RaisingFailure =>
                /\ result = get_mock_response(prompt, max_outputs)
                /\ lastMock.prompt = prompt
                /\ lastMock.n = max_outputs
          /\ (GEMINI_API_KEY /\ InvalidJson) =>
                result = parse_gemini_response(reply.text, max_outputs)

\* C2 witness: a reply whose 'captions' cannot be sliced ended in the mock
\* response of a non-empty prompt.
C2_Witness ==
    /\ pc = "returned"
    /\ reply.kind = "text"
    /\ json_outcome(reply) = "raise"
    /\ prompt = "Bollywood night"
    /\ max_outputs = 3
    /\ result = get_mock_response("Bollywood night", 3)

Pool(songs) == {songs[i] : i \in 1..Len(songs)}

\* The prompt holds the word w, in any case, at some position.
HasWord(p, w) ==
    \E i \in 1..(Len(p) - Len(w) + 1) : lower(SubSeq(p, i, i + Len(w) - 1)) = w

\* The pool of the highest-priority keyword in the prompt.
ExpectedPool(p) ==
    IF HasWord(p, "bollywood") THEN Pool(bollywood_songs)
    ELSE IF HasWord(p, "tollywood") THEN Pool(tollywood_songs)
    ELSE IF HasWord(p, "kpop") \/ HasWord(p, "k-pop") THEN Pool(kpop_songs)
    ELSE Pool(hollywood_songs)

\* C4: every song of a mock response comes from the pool of the
\* highest-priority keyword (bollywood, tollywood, kpop/k-pop, hollywood)
\* in the prompt, matched in any case, and from the hollywood pool when the
\* prompt holds no keyword or is empty.
C4_RegionPriority ==
    mockCalls >= 1 =>
        \A i \in 1..Len(lastMock.out.songs) :
            lastMock.out.songs[i] \in ExpectedPool(lastMock.prompt)

\* C4 witness: a prompt with hollywood and bollywood got bollywood songs.
C4_Witness ==
    /\ mockCalls >= 1
    /\ lastMock.prompt = "Hollywood and bollywood"
    /\ lastMock.n = 3
    /\ lastMock.out.songs[1] \in Pool(bollywood_songs)

\* The options were read (app.py:903-911 ran).
OptionsRead ==
    pc \in {"prompt", "adapter", "call", "open", "generate", "parse", "except",
            "returned"} \/ Answered

\* C5: the count is in [1,6]: an integer num below 1 yields 1, above 6
\* yields 6, in [1,6] is kept; a missing num and a num that int() rejects
\* yield 3.
C5_CountClamped ==
    OptionsRead =>
        /\ num \in 1..6
        /\ form.num = << >> => num = 3
        /\ form.num = << "0" >> => num = 1
        /\ form.num = << "10" >> => num = 6
        /\ (form.num # << >> /\ is_int(form.num[1])) =>
              LET v == int(form.num[1])
              IN  /\ v < 1 => num = 1
                  /\ v > 6 => num = 6
                  /\ (v >= 1 /\ v <= 6) => num = v
        /\ (form.num # << >> /\ ~is_int(form.num[1])) => num = 3

\* C5 witness: num=-2 was clamped to 1.
C5_Witness ==
    /\ pc = "prompt"
    /\ form.num = << "-2" >>
    /\ num = 1

\* The extension of the filename the client sent, lower-cased.
SentExtension == lower(splitext(upload.filename))

\* C6: a request without image field, and a request whose file extension is
\* not .jpg, .jpeg or .png, is answered 400 with an error; a request whose
\* file has an allowed extension is never answered 400. (Stated as claimed;
\* the extension the code tests is the one of secure_filename's result.)
C6_UploadRejection ==
    pc = "responded" =>
        /\ ~upload.present => (response.status = 400 /\ response.error # "")
        /\ (upload.present /\ SentExtension \notin {".jpg", ".jpeg", ".png"}) =>
              (response.status = 400 /\ response.error # "")
        /\ (upload.present /\ SentExtension \in {".jpg", ".jpeg", ".png"}) =>
              response.status # 400

\* The reply went through the JSON path of call_gemini.
JsonPath ==
    /\ pc = "returned"
    /\ reply.kind = "text"
    /\ json_outcome(reply) = "return"

\* A song entry the claim covers: an object with title and artist, or a
\* string.
Covered(e) ==
    \/ e.t = "dict" /\ {"title", "artist"} \subseteq e.keys
    \/ e.t = "str"

\* What the claim makes of a covered entry.
Normalized(e) ==
    IF e.t = "dict" THEN e
    ELSE LET i == Find(e.s, " - ")
         IN  IF i = 0 THEN Dict(strip(e.s), "Unknown Artist")
             ELSE LET rest == SubSeq(e.s, i + 3, Len(e.s))
                      j == Find(rest, " - ")
                  IN  Dict(strip(SubSeq(e.s, 1, i - 1)),
                           strip(IF j = 0 THEN rest ELSE SubSeq(rest, 1, j - 1)))

ClaimedSeed(p) == IF p = "" THEN 0 ELSE SumOrd(p) % 7

C9_NoCredentialNoCall ==
    ~GEMINI_API_KEY =>
        /\ extCalls = 0
        /\ reply = NoReply
        /\ pc \notin {"open", "generate", "parse", "except"}
        /\ (pc = "returned" \/ Answered) =>
              /\ mockCalls = 1
              /\ result = get_mock_response(prompt, max_outputs)

\* C9 witness: a request answered without credential.
C9_Witness ==
    /\ ~GEMINI_API_KEY
    /\ Answered
    /\ num = 3
    /\ Len(response.songs) = 3

\* C10: the external model is called at most once in a request; after a
\* call that raised, control is in the except branch or past it, no second
\* call is made, and the result is the one mock response for the prompt.
C10_NoRetry ==
    /\ extCalls <= 1
    /\ reply.kind = "raise" =>
          /\ extCalls = 1
          /\ pc \in {"except", "returned", "responded"}
          /\ pc = "except" => mockCalls = 0
          /\ pc \in {"returned", "responded"} =>
                /\ mockCalls = 1
                /\ lastMock.prompt = prompt
                /\ lastMock.n = max_outputs
                /\ result = lastMock.out

\* C10 witness: a request whose external call raised was answered with the
\* mock response.
C10_Witness ==
    /\ Answered
    /\ reply.kind = "raise"
    /\ extCalls = 1
    /\ num = 6
    /\ response.songs = lastMock.out.songs

\* The place of a position in the order validate, read options, build
\* prompt, call adapter (the steps of call_gemini), normalize and respond.
Rank(p) ==
    CASE p = "idle" -> 0
      [] p = "validate" -> 1
      [] p = "options" -> 2
      [] p = "prompt" -> 3
      [] p = "adapter" -> 4
      [] p = "call" -> 5
      [] p = "open" -> 6
      [] p = "generate" -> 7
      [] p = "parse" -> 8
      [] p = "except" -> 9
      [] p = "returned" -> 10
      [] p = "responded" -> 11

\* The upload of the running request fails the validation of app.py:891-898.
FailsValidation == ~is_uploaded(upload) \/ ~extension_allowed(upload_ext(upload))

NoParsableObject == json_str(reply.text) = "" \/ ~reply.ok

\* The parsed object lacks 'captions' or lacks 'songs'.
LacksKey == reply.ok /\ ("captions" \notin reply.keys \/ "songs" \notin reply.keys)

\* C12: when the external call answered and the reply has no parsable JSON
\* object between its first '{' and last '}', or the object lacks 'captions'
\* or 'songs', call_gemini returns the line-based recovery of the reply
\* text; get_mock_response is then called for the empty prompt only, and
\* only to fill up.
C12_FallsToLineRecovery ==
    (pc = "returned" /\ reply.kind = "text" /\ (NoParsableObject \/ LacksKey)) =>
        /\ result = parse_gemini_response(reply.text, max_outputs)
        /\ mockCalls <= 1
        /\ mockCalls = 1 => (lastMock.prompt = "" /\ lastMock.n = max_outputs)

\* C12 witness: a reply without braces was recovered line by line, and the
\* result is not the mock response of the prompt.
C12_Witness ==
    /\ pc = "returned"
    /\ reply.kind = "text"
    /\ ~has_braces(reply.text)
    /\ prompt = "Bollywood night"
    /\ max_outputs = 3
    /\ result.captions.items[1] = "Golden hour glow"
    /\ result.songs[1] = Dict("1. Yellow", "Coldplay")
    /\ result # get_mock_response(prompt, max_outputs)

\* The line the loop of parse_gemini_response is about to read, trimmed.
Line == IF pc = "scan" /\ scan.i <= Len(scan.lines) THEN strip(scan.lines[scan.i]) ELSE ""

\* The loop reads one line in this step.
LineRead == pc = "scan" /\ pc' = "scan" /\ scan'.i = scan.i + 1

\* The line about to be read sets the captions section / the songs section
\* by the words of the claims.
CaptionTrigger == Line # "" /\ Contains(lower(Line), "caption") /\ Len(scan.captions) = 0
SongTrigger == Line # "" /\ Contains(lower(Line), "song") /\ Len(scan.songs) = 0

\* A line without its leading bullet markers ('*', '-', the stray encoded
\* bullet) and the blanks around it.
RECURSIVE Unbullet(_)
Unbullet(line) ==
    LET l == strip(line)
    IN  IF l = "" THEN l
        ELSE IF CharAt(l, 1) \in {"*", "-"} THEN Unbullet(SubSeq(l, 2, Len(l)))
        ELSE IF Len(l) >= 6 /\ SubSeq(l, 1, 6) = "â€¢" THEN Unbullet(SubSeq(l, 7, Len(l)))
        ELSE l

\* The song the claim gives a line read in songs mode; << >> when none.
ClaimedSong(line) ==
    LET c == Unbullet(line)
    IN  IF Contains(c, " by ")
        THEN <<Dict(strip(split(c, " by ")[1]), strip(split(c, " by ")[2]))>>
        ELSE IF Contains(c, " - ")
        THEN <<Dict(strip(split(c, " - ")[1]), strip(split(c, " - ")[2]))>>
        ELSE IF Len(c) > 3 THEN <<Dict(c, "Unknown Artist")>>
        ELSE << >>

\* C13: in line-based recovery a line read in songs mode yields {Title,
\* Artist} when it has the form "Title by Artist", else {Title, Artist} when
\* it has the form "Title - Artist", else {cleaned line, "Unknown Artist"}
\* when its cleaned length exceeds 3; nothing is collected once count songs
\* are there.
C13_SongLines ==
    [][(LineRead /\ scan.section = "songs" /\ Line # "" /\ ~CaptionTrigger /\ ~SongTrigger) =>
          /\ scan'.captions = scan.captions
          /\ scan'.songs = IF Len(scan.songs) < max_outputs
                           THEN scan.songs \o ClaimedSong(Line)
                           ELSE scan.songs]_vars

\* Neither list changes in this step.
NothingAdded == scan'.captions = scan.captions /\ scan'.songs = scan.songs

\* C14 as stated: a non-empty line containing "caption" read while no
\* caption is collected sets captions mode, and a line containing "song"
\* read while no song is collected sets songs mode; the trigger line is added
\* to neither list, and a line read before any mode is set is added to
\* neither list.
C14_ModeSwitch_AsStated ==
    [][LineRead =>
          /\ CaptionTrigger => (scan'.section = "captions" /\ NothingAdded)
          /\ SongTrigger => (scan'.section = "songs" /\ NothingAdded)
          /\ scan.section = "none" => NothingAdded]_vars

\* C14 (amended): the captions rule is tried first, so a line containing
\* "song" read while no song is collected sets songs mode unless it also
\* contains "caption" while no caption is collected, which sets captions
\* mode; the trigger line is added to neither list, a line read before any
\* mode is set is added to neither list, and no other line changes the mode.
C14_ModeSwitch ==
    [][LineRead =>
          /\ CaptionTrigger => (scan'.section = "captions" /\ NothingAdded)
          /\ (SongTrigger /\ ~CaptionTrigger) => (scan'.section = "songs" /\ NothingAdded)
          /\ scan.section = "none" => NothingAdded
          /\ (~CaptionTrigger /\ ~SongTrigger) => scan'.section = scan.section]_vars

\* C14 witness: the heading of the songs was read after a caption had been
\* collected; the mode is songs and neither heading is in a list.
C14_Witness ==
    /\ pc = "scan"
    /\ scan.lines = <<"Captions:", "* Golden hour glow", "Songs:">>
    /\ scan.i = 4
    /\ scan.section = "songs"
    /\ scan.captions = <<"Golden hour glow">>
    /\ scan.songs = << >>

\* C15: for every reply text and every count from 1 to 6,
\* parse_gemini_response returns exactly count captions and count songs:
\* the entries recovered from the text first, in their order, and every
\* missing position filled with the entry at that position of the mock
\* response for the empty prompt (seed 0, hollywood pool); the mock
\* generator is called exactly when an entry is missing.
C15_PaddedToCount ==
    (pc = "returned" /\ scan # NoScan) =>
        /\ max_outputs \in 1..6
        /\ Len(result.captions.items) = max_outputs
        /\ Len(result.songs) = max_outputs
        /\ \A k \in 1..max_outputs :
              /\ result.captions.items[k] =
                    IF k <= Len(scan.captions) THEN scan.captions[k] ELSE base_captions[k]
              /\ result.songs[k] =
                    IF k <= Len(scan.songs) THEN scan.songs[k] ELSE hollywood_songs[k]
        /\ result = parse_gemini_response(scan.text, max_outputs)
        /\ mockCalls = (IF Len(scan.captions) < max_outputs \/ Len(scan.songs) < max_outputs
                        THEN 1 ELSE 0)
        /\ mockCalls = 1 => (lastMock.prompt = "" /\ lastMock.n = max_outputs)

\* C15 witness: no caption and one song were recovered for a count of 2;
\* the captions are the first two of the mock response and the second song
\* is its second song.
C15_Witness ==
    /\ pc = "returned"
    /\ max_outputs = 2
    /\ scan.captions = << >>
    /\ scan.songs = <<Dict("Yellow", "Coldplay")>>
    /\ result.captions.items = <<base_captions[1], base_captions[2]>>
    /\ result.songs = <<Dict("Yellow", "Coldplay"), hollywood_songs[2]>>
    /\ mockCalls = 1

\* The result of the running request is the mock response for the prompt
\* generate built.
MockForBuiltPrompt ==
    /\ mockCalls >= 1
    /\ lastMock.prompt = prompt
    /\ result = lastMock.out

SongPools == {bollywood_songs, hollywood_songs, tollywood_songs, kpop_songs}
Distinct(pool) == \A i, j \in 1..Len(pool) : pool[i] = pool[j] => i = j
IndexIn(pool, x) == CHOOSE i \in 1..Len(pool) : pool[i] = x

\* C17: the caption pool and the four song pools have 7 entries each, so
\* for every prompt and count the i-th caption and the i-th song of
\* get_mock_response stand at the same index, (seed + i) mod 7, of their
\* pools.
C17_IndicesAgree ==
    /\ Len(base_captions) = 7 /\ Distinct(base_captions)
    /\ \A pool \in SongPools : Len(pool) = 7 /\ Distinct(pool)
    /\ mockCalls >= 1 =>
          \E pool \in SongPools :
             \A i \in 0..(lastMock.n - 1) :
                LET caption == lastMock.out.captions.items[i + 1]
                    song == lastMock.out.songs[i + 1]
                IN  /\ caption \in Pool(base_captions)
                    /\ song \in Pool(pool)
                    /\ IndexIn(base_captions, caption) = IndexIn(pool, song)
                    /\ IndexIn(pool, song) = ((ClaimedSeed(lastMock.prompt) + i) % 7) + 1

\* C17 witness: a call for more entries than a pool holds; the eighth caption
\* and the eighth song are the first ones again.
C17_Witness ==
    /\ mockCalls >= 1
    /\ lastMock.prompt = "KPOP party"
    /\ lastMock.n >= 8
    /\ lastMock.out.songs[1] \in Pool(kpop_songs)
    /\ lastMock.out.songs[8] = lastMock.out.songs[1]
    /\ lastMock.out.captions.items[8] = lastMock.out.captions.items[1]

====
